---- MODULE Spec2Model ----
(***************************************************************************)
(* claude-unfocused: a PTY wrapper that strips the terminal focus events   *)
(* ESC [ I and ESC [ O from the input of a child process (src/main.go).    *)
(*                                                                         *)
(* Two specifications share the classifier operators:                      *)
(*   FilterSpec  the inputFilter alone: processByte and handleTimeout are  *)
(*               applied to every bounded byte stream, with a trace of     *)
(*               the calls; its output channel is always drained.          *)
(*   Spec        the whole wrapper: stdin reader, the two 16-slot          *)
(*               channels, the timer, the control loop of main, the child  *)
(*               and the terminal mode.                                    *)
(***************************************************************************)
EXTENDS Integers, Sequences, FiniteSets, TLC

\* ------------------------------------------------------------ constants

\* src/main.go:17-19
esc == 27
ctrlZ == 26
ctrlBackslash == 28
\* '[' (main.go:74), 'I' and 'O' (main.go:92)
LBracket == 91
ByteI == 73
ByteO == 79
\* capacity of inputCh (main.go:200) and of stdinCh (main.go:204)
InputChCap == 16
StdinChCap == 16
\* Slots of resizeCh (main.go:160) and of sigCh (main.go:178)
ResizeChCap == 1
SigChCap == 1

\* Ordinary bytes used as samples of "any other byte": 'a', 'b'.
Ordinary == {97, 98}

\* The bytes the classifier specification draws its input from.
Bytes == {esc, ctrlZ, ctrlBackslash, LBracket, ByteI, ByteO} \cup Ordinary

\* ------------------------------------------------------------ bounds

\* FilterSpec: number of processByte / handleTimeout calls in a trace.
MaxCalls == 5
\* Spec: bytes typed on the terminal (a pasted burst counts as one longest
\* typed chunk), and the longest typed chunk a single Read returns.
MaxInput == 3
MaxChunk == 2
\* SigSpec: changes of the terminal's dimensions, and signals delivered
MaxResizes == 2
MaxSignals == 2

\* The bytes typed on the terminal in Spec.
TtyBytes == {esc, ctrlZ, ctrlBackslash, LBracket, 97}

\* A pasted burst: one Read (main.go:211, up to 1024 bytes) returning one
\* byte more than inputCh holds.
Paste == [i \in 1..(InputChCap + 1) |-> 97]

\* The chunks a Read of stdin may return.
Chunks ==
    {Paste} \cup UNION {[1..n -> TtyBytes] : n \in 1..MaxChunk}

Cost(chunk) == IF chunk = Paste THEN MaxChunk ELSE Len(chunk)

\* ------------------------------------------------------------ state

VARIABLES
    pending,      \* inputFilter.pending
    timer,        \* inputFilter.timer/timerChan: "nil", "armed", "fired"
    trace,        \* FilterSpec: the calls made so far, in order
    typed,        \* bytes read from the terminal so far (bounded by MaxInput)
    reader,       \* the stdin goroutine (main.go:208-222): "reading", "exited"
    stdinCh,      \* chan []byte, 16 slots (main.go:204)
    stdinErrCh,   \* chan error, 1 slot (main.go:205)
    inputCh,      \* chan inputEvent, 16 slots (main.go:200)
    doneCh,       \* chan error, 1 slot (main.go:189)
    child,        \* the child process: "running", "exited", "killed"
    pc,           \* where the control loop of main is (main.go:225-263)
    cur,          \* the bytes of data not yet processed (main.go:231)
    termMode,     \* mode of the controlling terminal: "raw", "original"
    tstpNotify,   \* whether SIGTSTP is intercepted (signal.Notify)
    exitVia,      \* the return taken by main: "none", "done", "quit", "stdinErr"
    idleExpiry,   \* the timer expired while no input was waiting for the loop
    emitted,      \* history: every event sent on inputCh, in order
    written,      \* history: every byte written to the pty, in order
    start,        \* where main is before its control loop (main.go:155-222)
    ttySize,      \* dimensions of the controlling terminal
    ptySize,      \* dimensions of the pseudo-terminal
    winchPending, \* a SIGWINCH raised for the wrapper and not yet delivered
    resizeCh,     \* chan os.Signal, 1 slot (main.go:160)
    rsz,          \* the resize goroutine (main.go:162-166): "idle", "get", "set"
    rszSize,      \* the dimensions InheritSize has read and not yet applied
    resizes,      \* changes of the terminal's dimensions so far
    sigCh,        \* chan os.Signal, 1 slot (main.go:178)
    delivered,    \* history: signals delivered while the terminal was raw
    forwarded     \* history: signals passed to cmd.Process.Signal

svars == <<typed, reader, stdinCh, stdinErrCh, inputCh, doneCh, child, pc, cur,
           termMode, tstpNotify, exitVia, idleExpiry, emitted, written>>

rvars == <<start, ttySize, ptySize, winchPending, resizeCh, rsz, rszSize, resizes,
           sigCh, delivered, forwarded>>

vars == <<pending, timer, trace, svars, rvars>>

\* main has reached its control loop (main.go:225) with the terminal never
\* resized and no signal delivered: the pty has the terminal's dimensions
\* (main.go:156), both signal channels are empty, their goroutines wait.
Started ==
    /\ start = "loop"
    /\ ttySize = "small"
    /\ ptySize = "small"
    /\ winchPending = FALSE
    /\ resizeCh = <<>>
    /\ rsz = "idle"
    /\ rszSize = "small"
    /\ resizes = 0
    /\ sigCh = <<>>
    /\ delivered = <<>>
    /\ forwarded = <<>>

\* ------------------------------------------------------------ events

\* inputEvent (main.go:24-28)
DataEv(d) == [data |-> d, suspend |-> FALSE, quit |-> FALSE]
SuspendEv == [data |-> <<>>, suspend |-> TRUE, quit |-> FALSE]
QuitEv == [data |-> <<>>, suspend |-> FALSE, quit |-> TRUE]

\* ------------------------------------------------------------ classifier

\* startTimer (main.go:117-120): a new timer replaces timer and timerChan.
StartTimer == "armed"

\* Mutant of StopTimer: the timer is left as it is, an expiry already in its
\* channel included.
StopTimerKeepsChannel(t) == t

\* stopTimer (main.go:122-128): timer and timerChan become nil; an expiry
\* already sitting in the old channel is dropped with the channel.
StopTimer(t) == IF t # "nil" THEN "nil" ELSE t

\* Mutant of Flush: the held bytes are sent but the timer is not stopped.
FlushKeepsTimer(p, t) ==
    [pending |-> <<>>,
     timer   |-> t,
     out     |-> IF Len(p) > 0 THEN <<DataEv(p)>> ELSE <<>>]

\* Mutant of Flush: the held bytes are cleared without being sent.
FlushForgets(p, t) ==
    [pending |-> <<>>, timer |-> StopTimer(t), out |-> <<>>]

\* flush (main.go:109-115): the result of the call and the events it sends.
Flush(p, t) ==
    [pending |-> <<>>,
     timer   |-> StopTimer(t),
     out     |-> IF Len(p) > 0 THEN <<DataEv(p)>> ELSE <<>>]

\* Mutant of ControlByte: the control event is sent before the flush.
ControlByteSignalFirst(p, t, ev) ==
    LET f == Flush(p, t) IN
    [pending |-> f.pending, timer |-> f.timer, out |-> <<ev>> \o f.out]

\* processByte, a control character (main.go:47-56): flush, then the
\* control event ev.
ControlByte(p, t, ev) ==
    LET f == Flush(p, t) IN
    [pending |-> f.pending, timer |-> f.timer, out |-> Append(f.out, ev)]

\* Mutant of NoPending: a stray 'I' or 'O' outside a sequence is dropped.
NoPendingDropsFocusLetter(p, t, b) ==
    IF b = esc
    THEN [pending |-> Append(p, b), timer |-> StartTimer, out |-> <<>>]
    ELSE IF b = ByteI \/ b = ByteO
    THEN [pending |-> p, timer |-> t, out |-> <<>>]
    ELSE [pending |-> p, timer |-> t, out |-> <<DataEv(<<b>>)>>]

\* processByte, not in an escape sequence (main.go:58-67)
NoPending(p, t, b) ==
    IF b = esc
    THEN [pending |-> Append(p, b), timer |-> StartTimer, out |-> <<>>]
    ELSE [pending |-> p, timer |-> t, out |-> <<DataEv(<<b>>)>>]

\* Mutant of EscPending: a byte that finds the timer expired (timer.Stop
\* reporting false) has the held ESC flushed first, as a timeout would.
EscPendingFlushIfExpired(p, t, b) ==
    IF t = "fired"
    THEN LET n == NoPending(<<>>, "nil", b) IN
         [pending |-> n.pending, timer |-> n.timer, out |-> <<DataEv(p)>> \o n.out]
    ELSE IF b = LBracket
    THEN [pending |-> Append(p, b), timer |-> StartTimer, out |-> <<>>]
    ELSE IF b = esc
    THEN [pending |-> <<esc>>, timer |-> StartTimer, out |-> <<DataEv(<<esc>>)>>]
    ELSE [pending |-> <<>>, timer |-> StopTimer(t), out |-> <<DataEv(<<esc, b>>)>>]

\* Mutant of EscPending: a second ESC is treated like any other byte.
EscPendingMerge(p, t, b) ==
    IF b = LBracket
    THEN [pending |-> Append(p, b), timer |-> StartTimer, out |-> <<>>]
    ELSE [pending |-> <<>>, timer |-> StopTimer(t), out |-> <<DataEv(<<esc, b>>)>>]

\* processByte, just ESC pending (main.go:72-88); the timer was stopped at
\* main.go:70.
EscPending(p, t, b) ==
    IF b = LBracket
    THEN [pending |-> Append(p, b), timer |-> StartTimer, out |-> <<>>]
    ELSE IF b = esc
    THEN [pending |-> <<esc>>, timer |-> StartTimer, out |-> <<DataEv(<<esc>>)>>]
    ELSE [pending |-> <<>>, timer |-> StopTimer(t), out |-> <<DataEv(<<esc, b>>)>>]

\* Mutant of CsiPending: only focus-in (ESC [ I) is swallowed.
CsiPendingOnlyFocusIn(p, t, b) ==
    IF b = ByteI
    THEN [pending |-> <<>>, timer |-> StopTimer(t), out |-> <<>>]
    ELSE IF b = esc
    THEN [pending |-> <<esc>>, timer |-> StartTimer, out |-> <<DataEv(<<esc, LBracket>>)>>]
    ELSE [pending |-> <<>>, timer |-> StopTimer(t), out |-> <<DataEv(<<esc, LBracket, b>>)>>]

\* Mutant of CsiPending: the held ESC [ and the new byte leave as two events.
CsiPendingSplit(p, t, b) ==
    IF b = ByteI \/ b = ByteO
    THEN [pending |-> <<>>, timer |-> StopTimer(t), out |-> <<>>]
    ELSE IF b = esc
    THEN [pending |-> <<esc>>, timer |-> StartTimer, out |-> <<DataEv(<<esc, LBracket>>)>>]
    ELSE [pending |-> <<>>, timer |-> StopTimer(t),
          out |-> <<DataEv(<<esc, LBracket>>), DataEv(<<b>>)>>]

\* processByte, ESC [ pending (main.go:90-106); the timer was stopped at
\* main.go:70.
CsiPending(p, t, b) ==
    IF b = ByteI \/ b = ByteO
    THEN [pending |-> <<>>, timer |-> StopTimer(t), out |-> <<>>]
    ELSE IF b = esc
    THEN [pending |-> <<esc>>, timer |-> StartTimer, out |-> <<DataEv(<<esc, LBracket>>)>>]
    ELSE [pending |-> <<>>, timer |-> StopTimer(t), out |-> <<DataEv(<<esc, LBracket, b>>)>>]

\* processByte (main.go:45-107): the filter after the call and the events
\* the call sends on f.output, in order.
ProcessByte(p, t, b) ==
    IF b = ctrlZ THEN ControlByte(p, t, SuspendEv)
    ELSE IF b = ctrlBackslash THEN ControlByte(p, t, QuitEv)
    ELSE IF Len(p) = 0 THEN NoPending(p, t, b)
    ELSE IF Len(p) = 1 /\ p[1] = esc THEN EscPending(p, t, b)
    ELSE IF Len(p) = 2 /\ p[1] = esc /\ p[2] = LBracket THEN CsiPending(p, t, b)
    ELSE [pending |-> p, timer |-> StopTimer(t), out |-> <<>>]

\* Mutant of HandleTimeout: the held bytes are sent and still held.
HandleTimeoutKeepsPending(p, t) ==
    [pending |-> p,
     timer   |-> StopTimer(t),
     out     |-> IF Len(p) > 0 THEN <<DataEv(p)>> ELSE <<>>]

\* Mutant of HandleTimeout: the timer is stopped but nothing is flushed.
HandleTimeoutNoFlush(p, t) ==
    [pending |-> p, timer |-> StopTimer(t), out |-> <<>>]

\* handleTimeout (main.go:134-136)
HandleTimeout(p, t) == Flush(p, t)

\* ------------------------------------------------------------ FilterSpec

\* newInputFilter (main.go:39-43): nothing pending, no timer.
FilterInit ==
    /\ pending = <<>>
    /\ timer = "nil"
    /\ trace = <<>>
    /\ typed = 0
    /\ reader = "reading"
    /\ stdinCh = <<>>
    /\ stdinErrCh = <<>>
    /\ inputCh = <<>>
    /\ doneCh = <<>>
    /\ child = "running"
    /\ pc = "select"
    /\ cur = <<>>
    /\ termMode = "raw"
    /\ tstpNotify = FALSE
    /\ exitVia = "none"
    /\ idleExpiry = FALSE
    /\ emitted = <<>>
    /\ written = <<>>
    /\ Started

\* One call of the trace: kind "byte" (processByte(in)) or "timeout"
\* (handleTimeout, in = 0), the pending sequence and the timer before (pre,
\* tpre) and after it (post, tpost), and the events it sent.
Call(kind, in, pre, tpre, r) ==
    [kind |-> kind, in |-> in, pre |-> pre, tpre |-> tpre, out |-> r.out,
     post |-> r.pending, tpost |-> r.timer]

\* filter.processByte(b) with the output channel drained by its reader.
FProcessByte(b) ==
    /\ Len(trace) < MaxCalls
    /\ LET r == ProcessByte(pending, timer, b) IN
        /\ pending' = r.pending
        /\ timer' = r.timer
        /\ trace' = Append(trace, Call("byte", b, pending, timer, r))
    /\ UNCHANGED svars
    /\ UNCHANGED rvars

\* The armed timer expires: a value is waiting in timerChan (main.go:118).
FTimerExpire ==
    /\ timer = "armed"
    /\ timer' = "fired"
    /\ UNCHANGED <<pending, trace, svars>>
    /\ UNCHANGED rvars

\* case <-filter.timeout(): filter.handleTimeout() (main.go:235-236)
FHandleTimeout ==
    /\ timer = "fired"
    /\ Len(trace) < MaxCalls
    /\ LET r == HandleTimeout(pending, timer) IN
        /\ pending' = r.pending
        /\ timer' = r.timer
        /\ trace' = Append(trace, Call("timeout", 0, pending, timer, r))
    /\ UNCHANGED svars
    /\ UNCHANGED rvars

FilterNext ==
    \/ \E b \in Bytes : FProcessByte(b)
    \/ FTimerExpire
    \/ FHandleTimeout

FilterSpec == FilterInit /\ [][FilterNext]_vars

\* ------------------------------------------------------------ Spec

\* main up to the control loop (main.go:138-222): the child runs under the
\* pty, the terminal is raw, SIGTSTP was never passed to signal.Notify
\* (main.go:161, 179), the channels are empty, the filter is new.
Init ==
    /\ pending = <<>>
    /\ timer = "nil"
    /\ trace = <<>>
    /\ typed = 0
    /\ reader = "reading"
    /\ stdinCh = <<>>
    /\ stdinErrCh = <<>>
    /\ inputCh = <<>>
    /\ doneCh = <<>>
    /\ child = "running"
    /\ pc = "select"
    /\ cur = <<>>
    /\ termMode = "raw"
    /\ tstpNotify = FALSE
    /\ exitVia = "none"
    /\ idleExpiry = FALSE
    /\ emitted = <<>>
    /\ written = <<>>
    /\ Started

\* The goroutines of the wrapper run: it is neither stopped by SIGTSTP nor
\* gone.
Alive == pc \notin {"stopped", "exited"}

\* The filter where a send on f.output blocks (main.go:49, 54, 64, 79, 84,
\* 97, 102, 112) after k sends of the call completed: flush has stopped the
\* timer and cleared pending only after its own send; main.go:70 has stopped
\* the timer when bytes were pending.
BlockedAt(p, t, viaFlush, k) ==
    [pending |-> IF k > 0 THEN <<>> ELSE p,
     timer   |-> IF viaFlush \/ Len(p) > 0 THEN StopTimer(t) ELSE t]

\* Mutant of Recv: the newest event is taken for the oldest.
RecvNewest(ch) == ch[Len(ch)]

\* ev := <-inputCh (main.go:238): the oldest event queued.
Recv(ch) == Head(ch)

\* ptmx.Write(ev.data) (main.go:257)
PtmxWrite(w, data) == w \o data

\* Mutant of Restore: the terminal is left as it is.
RestoreNothing(mode) == mode

\* term.Restore(fd, oldState) (main.go:174, 241, 250)
Restore(mode) == "original"

\* A call of the filter by the control loop, with result r: its sends go to
\* inputCh while there is room; when there is none the loop stays in the
\* send for good, since only the loop itself receives from inputCh.
\* rest is what remains of the chunk after the call.
FilterCall(r, viaFlush, rest) ==
    LET room == InputChCap - Len(inputCh)
        fits == Len(r.out) <= room
        sent == IF fits THEN r.out ELSE SubSeq(r.out, 1, room)
        blk  == BlockedAt(pending, timer, viaFlush, Len(sent))
    IN  /\ inputCh' = inputCh \o sent
        /\ emitted' = emitted \o sent
        /\ pending' = IF fits THEN r.pending ELSE blk.pending
        /\ timer' = IF fits THEN r.timer ELSE blk.timer
        /\ idleExpiry' = IF timer' = "fired" THEN idleExpiry ELSE FALSE
        /\ cur' = IF fits THEN rest ELSE cur
        /\ pc' = IF ~fits THEN "blocked"
                 ELSE IF rest = <<>> THEN "select" ELSE "bytes"

\* The stdin goroutine: os.Stdin.Read returns n > 0 bytes, which are sent
\* on stdinCh (main.go:211-216).
StdinRead(chunk) ==
    /\ Alive
    /\ reader = "reading"
    /\ Len(stdinCh) < StdinChCap
    /\ typed + Cost(chunk) <= MaxInput
    /\ typed' = typed + Cost(chunk)
    /\ stdinCh' = Append(stdinCh, chunk)
    /\ UNCHANGED <<pending, timer, trace, reader, stdinErrCh, inputCh, doneCh, child,
                   pc, cur, termMode, tstpNotify, exitVia, idleExpiry, emitted, written>>
    /\ UNCHANGED rvars

\* The stdin goroutine: Read fails or reaches end of input; the error is
\* sent on stdinErrCh and the goroutine returns (main.go:217-220).
StdinError ==
    /\ Alive
    /\ reader = "reading"
    /\ stdinErrCh' = Append(stdinErrCh, "err")
    /\ reader' = "exited"
    /\ UNCHANGED <<pending, timer, trace, typed, stdinCh, inputCh, doneCh, child,
                   pc, cur, termMode, tstpNotify, exitVia, idleExpiry, emitted, written>>
    /\ UNCHANGED rvars

\* The timer armed by startTimer expires: a value waits in timerChan.
TimerExpire ==
    /\ Alive
    /\ timer = "armed"
    /\ timer' = "fired"
    /\ idleExpiry' = (stdinCh = <<>> /\ cur = <<>>)
    /\ UNCHANGED <<pending, trace, typed, reader, stdinCh, stdinErrCh, inputCh, doneCh,
                   child, pc, cur, termMode, tstpNotify, exitVia, emitted, written>>
    /\ UNCHANGED rvars

\* The child process exits by itself.
ChildExit ==
    /\ child = "running"
    /\ pc # "exited"
    /\ child' = "exited"
    /\ UNCHANGED <<pending, timer, trace, typed, reader, stdinCh, stdinErrCh, inputCh,
                   doneCh, pc, cur, termMode, tstpNotify, exitVia, idleExpiry, emitted,
                   written>>
    /\ UNCHANGED rvars

\* done <- cmd.Wait() (main.go:190-192)
WaitReturn ==
    /\ Alive
    /\ child # "running"
    /\ doneCh = <<>>
    /\ doneCh' = <<"exit">>
    /\ UNCHANGED <<pending, timer, trace, typed, reader, stdinCh, stdinErrCh, inputCh,
                   child, pc, cur, termMode, tstpNotify, exitVia, idleExpiry, emitted,
                   written>>
    /\ UNCHANGED rvars

\* case <-done: return (main.go:227-228), with the deferred Restore
\* (main.go:173-175).
SelDone ==
    /\ pc = "select"
    /\ doneCh # <<>>
    /\ doneCh' = Tail(doneCh)
    /\ termMode' = Restore(termMode)
    /\ pc' = "exited"
    /\ exitVia' = "done"
    /\ UNCHANGED <<pending, timer, trace, typed, reader, stdinCh, stdinErrCh, inputCh,
                   child, cur, tstpNotify, idleExpiry, emitted, written>>
    /\ UNCHANGED rvars

\* case data := <-stdinCh (main.go:230-231): the loop over its bytes starts.
SelStdin ==
    /\ pc = "select"
    /\ stdinCh # <<>>
    /\ cur' = Head(stdinCh)
    /\ stdinCh' = Tail(stdinCh)
    /\ pc' = "bytes"
    /\ UNCHANGED <<pending, timer, trace, typed, reader, stdinErrCh, inputCh, doneCh,
                   child, termMode, tstpNotify, exitVia, idleExpiry, emitted, written>>
    /\ UNCHANGED rvars

\* filter.processByte(b) for the next byte of data (main.go:231-233)
ByteStep ==
    /\ pc = "bytes"
    /\ LET b == Head(cur) IN
        FilterCall(ProcessByte(pending, timer, b), b \in {ctrlZ, ctrlBackslash}, Tail(cur))
    /\ UNCHANGED <<trace, typed, reader, stdinCh, stdinErrCh, doneCh, child, termMode,
                   tstpNotify, exitVia, written>>
    /\ UNCHANGED rvars

\* case <-filter.timeout(): filter.handleTimeout() (main.go:235-236)
SelTimeout ==
    /\ pc = "select"
    /\ timer = "fired"
    /\ FilterCall(HandleTimeout(pending, timer), TRUE, <<>>)
    /\ UNCHANGED <<trace, typed, reader, stdinCh, stdinErrCh, doneCh, child, termMode,
                   tstpNotify, exitVia, written>>
    /\ UNCHANGED rvars

\* case ev := <-inputCh, a data event (main.go:238, 256-258)
SelData ==
    /\ pc = "select"
    /\ inputCh # <<>>
    /\ LET ev == Recv(inputCh) IN
        /\ ~ev.suspend /\ ~ev.quit
        /\ written' = IF Len(ev.data) > 0 THEN PtmxWrite(written, ev.data) ELSE written
    /\ inputCh' = Tail(inputCh)
    /\ UNCHANGED <<pending, timer, trace, typed, reader, stdinCh, stdinErrCh, doneCh,
                   child, pc, cur, termMode, tstpNotify, exitVia, idleExpiry, emitted>>
    /\ UNCHANGED rvars

\* Mutant of SelSuspend: the suspend branch without its term.Restore.
SelSuspendNoRestore ==
    /\ pc = "select"
    /\ inputCh # <<>>
    /\ inputCh[1].suspend
    /\ inputCh' = Tail(inputCh)
    /\ pc' = "suspend_reset"
    /\ UNCHANGED <<pending, timer, trace, typed, reader, stdinCh, stdinErrCh, doneCh,
                   child, cur, termMode, tstpNotify, exitVia, idleExpiry, emitted, written>>
    /\ UNCHANGED rvars

\* case ev := <-inputCh, a suspend event: term.Restore (main.go:239-241)
SelSuspend ==
    /\ pc = "select"
    /\ inputCh # <<>>
    /\ Recv(inputCh).suspend
    /\ inputCh' = Tail(inputCh)
    /\ termMode' = Restore(termMode)
    /\ pc' = "suspend_reset"
    /\ UNCHANGED <<pending, timer, trace, typed, reader, stdinCh, stdinErrCh, doneCh,
                   child, cur, tstpNotify, exitVia, idleExpiry, emitted, written>>
    /\ UNCHANGED rvars

\* signal.Reset(syscall.SIGTSTP) (main.go:243)
SuspendReset ==
    /\ pc = "suspend_reset"
    /\ tstpNotify' = FALSE
    /\ pc' = "suspend_kill"
    /\ UNCHANGED <<pending, timer, trace, typed, reader, stdinCh, stdinErrCh, inputCh,
                   doneCh, child, cur, termMode, exitVia, idleExpiry, emitted, written>>
    /\ UNCHANGED rvars

\* syscall.Kill(0, syscall.SIGTSTP) (main.go:245): with the default
\* disposition the wrapper stops, as the comment of main.go:246 takes for
\* granted, before the call returns; intercepted, the signal stops nothing.
SuspendKill ==
    /\ pc = "suspend_kill"
    /\ pc' = IF tstpNotify THEN "resumed" ELSE "stopped"
    /\ UNCHANGED <<pending, timer, trace, typed, reader, stdinCh, stdinErrCh, inputCh,
                   doneCh, child, cur, termMode, tstpNotify, exitVia, idleExpiry, emitted,
                   written>>
    /\ UNCHANGED rvars

\* The shell continues the stopped wrapper (SIGCONT).
Continue ==
    /\ pc = "stopped"
    /\ pc' = "resumed"
    /\ UNCHANGED <<pending, timer, trace, typed, reader, stdinCh, stdinErrCh, inputCh,
                   doneCh, child, cur, termMode, tstpNotify, exitVia, idleExpiry, emitted,
                   written>>
    /\ UNCHANGED rvars

\* term.MakeRaw after the resume (main.go:247)
SuspendMakeRaw ==
    /\ pc = "resumed"
    /\ termMode' = "raw"
    /\ pc' = "select"
    /\ UNCHANGED <<pending, timer, trace, typed, reader, stdinCh, stdinErrCh, inputCh,
                   doneCh, child, cur, tstpNotify, exitVia, idleExpiry, emitted, written>>
    /\ UNCHANGED rvars

\* Mutant of SelQuit: the quit branch without cmd.Process.Kill.
SelQuitNoKill ==
    /\ pc = "select"
    /\ inputCh # <<>>
    /\ inputCh[1].quit /\ ~inputCh[1].suspend
    /\ inputCh' = Tail(inputCh)
    /\ termMode' = "original"
    /\ pc' = "exited"
    /\ exitVia' = "quit"
    /\ UNCHANGED <<pending, timer, trace, typed, reader, stdinCh, stdinErrCh, doneCh,
                   child, cur, tstpNotify, idleExpiry, emitted, written>>
    /\ UNCHANGED rvars

\* case ev := <-inputCh, a quit event: Restore, Kill, return (main.go:248-255)
SelQuit ==
    /\ pc = "select"
    /\ inputCh # <<>>
    /\ Recv(inputCh).quit /\ ~Recv(inputCh).suspend
    /\ inputCh' = Tail(inputCh)
    /\ termMode' = Restore(Restore(termMode))
    /\ child' = IF child = "running" THEN "killed" ELSE child
    /\ pc' = "exited"
    /\ exitVia' = "quit"
    /\ UNCHANGED <<pending, timer, trace, typed, reader, stdinCh, stdinErrCh, doneCh,
                   cur, tstpNotify, idleExpiry, emitted, written>>
    /\ UNCHANGED rvars

\* case <-stdinErrCh: return (main.go:260-261), with the deferred Restore.
SelStdinErr ==
    /\ pc = "select"
    /\ stdinErrCh # <<>>
    /\ stdinErrCh' = Tail(stdinErrCh)
    /\ termMode' = Restore(termMode)
    /\ pc' = "exited"
    /\ exitVia' = "stdinErr"
    /\ UNCHANGED <<pending, timer, trace, typed, reader, stdinCh, inputCh, doneCh, child,
                   cur, tstpNotify, idleExpiry, emitted, written>>
    /\ UNCHANGED rvars

Next ==
    \/ \E chunk \in Chunks : StdinRead(chunk)
    \/ StdinError
    \/ TimerExpire
    \/ ChildExit
    \/ WaitReturn
    \/ SelDone
    \/ SelStdin
    \/ ByteStep
    \/ SelTimeout
    \/ SelData
    \/ SelSuspend
    \/ SuspendReset
    \/ SuspendKill
    \/ Continue
    \/ SuspendMakeRaw
    \/ SelQuit
    \/ SelStdinErr

Spec == Init /\ [][Next]_vars

\* ------------------------------------------------------------ SigSpec

\* Dimensions the controlling terminal can take.
Sizes == {"small", "large"}

\* The signals passed to signal.Notify for sigCh (main.go:179)
Signals == {"SIGINT", "SIGTERM", "SIGQUIT"}

\* Delivery of a signal to a channel given to signal.Notify (main.go:161,
\* 179): the send never blocks, the signal is dropped when ch is full.
NotifySend(ch, cap, sig) == IF Len(ch) < cap THEN Append(ch, sig) ELSE ch

\* resizeCh receives SIGWINCH: signal.Notify (main.go:161) was called.
WinchNotified == start \notin {"inherit", "notify_winch"}

\* main right after pty.Start (main.go:149-153): the child runs, the
\* terminal is as the shell left it, no channel of main exists yet.
SigInit ==
    /\ pending = <<>>
    /\ timer = "nil"
    /\ trace = <<>>
    /\ typed = 0
    /\ reader = "reading"
    /\ stdinCh = <<>>
    /\ stdinErrCh = <<>>
    /\ inputCh = <<>>
    /\ doneCh = <<>>
    /\ child = "running"
    /\ pc = "select"
    /\ cur = <<>>
    /\ termMode = "original"
    /\ tstpNotify = FALSE
    /\ exitVia = "none"
    /\ idleExpiry = FALSE
    /\ emitted = <<>>
    /\ written = <<>>
    /\ start = "inherit"
    /\ ttySize \in Sizes
    /\ ptySize = "small"
    /\ winchPending = FALSE
    /\ resizeCh = <<>>
    /\ rsz = "idle"
    /\ rszSize = "small"
    /\ resizes = 0
    /\ sigCh = <<>>
    /\ delivered = <<>>
    /\ forwarded = <<>>

\* pty.InheritSize(os.Stdin, ptmx) of main (main.go:156)
StartInheritSize ==
    /\ Alive
    /\ start = "inherit"
    /\ ptySize' = ttySize
    /\ start' = "notify_winch"
    /\ UNCHANGED <<pending, timer, trace, svars, ttySize, winchPending, resizeCh, rsz,
                   rszSize, resizes, sigCh, delivered, forwarded>>

\* signal.Notify(resizeCh, SIGWINCH) and the start of the resize goroutine
\* (main.go:160-166)
StartNotifyWinch ==
    /\ Alive
    /\ start = "notify_winch"
    /\ start' = "makeraw"
    /\ UNCHANGED <<pending, timer, trace, svars, ttySize, ptySize, winchPending, resizeCh,
                   rsz, rszSize, resizes, sigCh, delivered, forwarded>>

\* term.MakeRaw of main (main.go:169)
StartMakeRaw ==
    /\ Alive
    /\ start = "makeraw"
    /\ termMode' = "raw"
    /\ start' = "notify_sig"
    /\ UNCHANGED <<pending, timer, trace, typed, reader, stdinCh, stdinErrCh, inputCh,
                   doneCh, child, pc, cur, tstpNotify, exitVia, idleExpiry, emitted,
                   written, ttySize, ptySize, winchPending, resizeCh, rsz, rszSize,
                   resizes, sigCh, delivered, forwarded>>

\* signal.Notify(sigCh, SIGINT, SIGTERM, SIGQUIT), the start of the
\* forwarding goroutine and of the other goroutines of main, up to the
\* control loop (main.go:178-225)
StartNotifySig ==
    /\ Alive
    /\ start = "notify_sig"
    /\ start' = "loop"
    /\ UNCHANGED <<pending, timer, trace, svars, ttySize, ptySize, winchPending, resizeCh,
                   rsz, rszSize, resizes, sigCh, delivered, forwarded>>

\* The user resizes the controlling terminal: the kernel raises SIGWINCH
\* for the wrapper.
TtyResize(s) ==
    /\ pc # "exited"
    /\ resizes < MaxResizes
    /\ s # ttySize
    /\ ttySize' = s
    /\ winchPending' = TRUE
    /\ resizes' = resizes + 1
    /\ UNCHANGED <<pending, timer, trace, svars, start, ptySize, resizeCh, rsz, rszSize,
                   sigCh, delivered, forwarded>>

\* The pending SIGWINCH is delivered to the running wrapper: sent on
\* resizeCh when signal.Notify was called for it (main.go:161), ignored
\* before that.
WinchDeliver ==
    /\ Alive
    /\ winchPending
    /\ winchPending' = FALSE
    /\ resizeCh' = IF WinchNotified
                   THEN NotifySend(resizeCh, ResizeChCap, "SIGWINCH")
                   ELSE resizeCh
    /\ UNCHANGED <<pending, timer, trace, svars, start, ttySize, ptySize, rsz, rszSize,
                   resizes, sigCh, delivered, forwarded>>

\* for range resizeCh (main.go:163): the resize goroutine takes a signal.
ResizerRecv ==
    /\ Alive
    /\ WinchNotified
    /\ rsz = "idle"
    /\ resizeCh # <<>>
    /\ resizeCh' = Tail(resizeCh)
    /\ rsz' = "get"
    /\ UNCHANGED <<pending, timer, trace, svars, start, ttySize, ptySize, winchPending,
                   rszSize, resizes, sigCh, delivered, forwarded>>

\* pty.InheritSize (main.go:164) reads the dimensions of the terminal.
ResizerGet ==
    /\ Alive
    /\ rsz = "get"
    /\ rszSize' = ttySize
    /\ rsz' = "set"
    /\ UNCHANGED <<pending, timer, trace, svars, start, ttySize, ptySize, winchPending,
                   resizeCh, resizes, sigCh, delivered, forwarded>>

\* pty.InheritSize (main.go:164) sets the dimensions of the pty.
ResizerSet ==
    /\ Alive
    /\ rsz = "set"
    /\ ptySize' = rszSize
    /\ rsz' = "idle"
    /\ UNCHANGED <<pending, timer, trace, svars, start, ttySize, winchPending, resizeCh,
                   rszSize, resizes, sigCh, delivered, forwarded>>

\* SIGINT, SIGTERM or SIGQUIT is delivered to the running wrapper after
\* signal.Notify (main.go:179): it is sent on sigCh, without blocking.
SigDeliver(sig) ==
    /\ Alive
    /\ start = "loop"
    /\ Len(delivered) < MaxSignals
    /\ delivered' = Append(delivered, sig)
    /\ sigCh' = NotifySend(sigCh, SigChCap, sig)
    /\ UNCHANGED <<pending, timer, trace, svars, start, ttySize, ptySize, winchPending,
                   resizeCh, rsz, rszSize, resizes, forwarded>>

\* SIGINT, SIGTERM or SIGQUIT is delivered before signal.Notify
\* (main.go:179): the Go runtime ends the program, no deferred call runs.
SigDefault(sig) ==
    /\ Alive
    /\ start # "loop"
    /\ Len(delivered) < MaxSignals
    /\ delivered' = IF start = "notify_sig" THEN Append(delivered, sig) ELSE delivered
    /\ pc' = "exited"
    /\ exitVia' = "signal"
    /\ UNCHANGED <<pending, timer, trace, typed, reader, stdinCh, stdinErrCh, inputCh,
                   doneCh, child, cur, termMode, tstpNotify, idleExpiry, emitted, written,
                   start, ttySize, ptySize, winchPending, resizeCh, rsz, rszSize, resizes,
                   sigCh, forwarded>>

\* for sig := range sigCh: cmd.Process.Signal(sig) (main.go:180-186)
Forward ==
    /\ Alive
    /\ start = "loop"
    /\ sigCh # <<>>
    /\ forwarded' = Append(forwarded, Head(sigCh))
    /\ sigCh' = Tail(sigCh)
    /\ UNCHANGED <<pending, timer, trace, svars, start, ttySize, ptySize, winchPending,
                   resizeCh, rsz, rszSize, resizes, delivered>>

\* The stdin goroutine, started at the end of the startup (main.go:208),
\* reads one Ctrl+Z.
SigStdinRead ==
    /\ start = "loop"
    /\ typed = 0
    /\ StdinRead(<<ctrlZ>>)

SigNext ==
    \/ StartInheritSize
    \/ StartNotifyWinch
    \/ StartMakeRaw
    \/ StartNotifySig
    \/ \E s \in Sizes : TtyResize(s)
    \/ WinchDeliver
    \/ ResizerRecv
    \/ ResizerGet
    \/ ResizerSet
    \/ \E sig \in Signals : SigDeliver(sig)
    \/ \E sig \in Signals : SigDefault(sig)
    \/ Forward
    \/ SigStdinRead
    \/ SelStdin
    \/ ByteStep
    \/ SelSuspend
    \/ SuspendReset
    \/ SuspendKill
    \/ Continue
    \/ SuspendMakeRaw

SigSpec == SigInit /\ [][SigNext]_vars

\* ------------------------------------------------------------ trace helpers

RECURSIVE Flatten(_)
\* The bytes of the data events of a sequence of events, concatenated.
Flatten(evs) ==
    IF evs = <<>> THEN <<>> ELSE Head(evs).data \o Flatten(Tail(evs))

RECURSIVE Emitted(_)
\* The events sent by the calls of a trace, in order.
Emitted(tr) ==
    IF tr = <<>> THEN <<>> ELSE Head(tr).out \o Emitted(Tail(tr))

RECURSIVE Inputs(_)
\* The bytes passed to processByte by the calls of a trace, in order.
Inputs(tr) ==
    IF tr = <<>> THEN <<>>
    ELSE (IF Head(tr).kind = "byte" THEN <<Head(tr).in>> ELSE <<>>) \o Inputs(Tail(tr))

Range(s) == {s[i] : i \in 1..Len(s)}

IsByte(i, b) == trace[i].kind = "byte" /\ trace[i].in = b

\* Calls i, i+1, i+2 of the trace are processByte(ESC), processByte('['),
\* processByte('I' or 'O'): no timeout was serviced between them.
FocusAt(i) ==
    /\ i + 2 <= Len(trace)
    /\ IsByte(i, esc)
    /\ IsByte(i + 1, LBracket)
    /\ (IsByte(i + 2, ByteI) \/ IsByte(i + 2, ByteO))

\* The only events a call may send for bytes held before it.
Held(p) == IF p = <<>> THEN <<>> ELSE <<DataEv(p)>>

\* ------------------------------------------------------------ claim C1

\* C1: focus events are swallowed. In every classifier state, when ESC '['
\* 'I' (or 'O') are passed to processByte consecutively, the three calls
\* send nothing but the bytes that were pending before the ESC, nothing
\* stays pending, and so none of the three bytes is ever emitted; when the
\* bytes around the focus event hold no ESC and no control byte, the bytes
\* forwarded are exactly those surrounding bytes in order (a ESC [ I b
\* yields a then b).
C1_FocusSwallowed ==
    /\ \A i \in 1..Len(trace) :
          FocusAt(i) =>
            /\ trace[i].out = Held(trace[i].pre)
            /\ trace[i + 1].out = <<>>
            /\ trace[i + 2].out = <<>>
            /\ trace[i + 2].post = <<>>
    /\ \A i \in 1..Len(trace) :
          LET before == SubSeq(trace, 1, i - 1)
              after == SubSeq(trace, i + 3, Len(trace))
              plain(tr) == /\ \A k \in 1..Len(tr) : tr[k].kind = "byte"
                           /\ Range(Inputs(tr)) \cap {esc, ctrlZ, ctrlBackslash} = {}
          IN  (FocusAt(i) /\ plain(before) /\ plain(after)) =>
                Flatten(Emitted(trace)) = Inputs(before) \o Inputs(after)

\* A focus event arrived while an ESC was pending, and a byte followed it.
C1_Witness ==
    \E i \in 1..Len(trace) :
        /\ FocusAt(i)
        /\ trace[i].pre # <<>>
        /\ Len(trace) > i + 2
        /\ trace[i + 3].kind = "byte"
        /\ trace[i + 3].in \in Ordinary

\* ------------------------------------------------------------ claim C2

\* C2 as stated: for every input without the ESC byte, the concatenation of
\* the data events equals the input.
C2_Original ==
    esc \notin Range(Inputs(trace)) => Flatten(Emitted(trace)) = Inputs(trace)

\* C2, amended: for every input that holds neither the ESC byte nor a
\* control byte (0x1A, 0x1C), the concatenation of the data events emitted
\* by processByte equals the input, and each byte is its own event.
C2_PlainForwarded ==
    Range(Inputs(trace)) \cap {esc, ctrlZ, ctrlBackslash} = {} =>
        /\ Flatten(Emitted(trace)) = Inputs(trace)
        /\ \A i \in 1..Len(trace) : trace[i].out = <<DataEv(<<trace[i].in>>)>>

\* A full-length input without ESC or control bytes was processed; it holds
\* bytes that mean something only after ESC ('[', 'I') and an ordinary byte.
C2_Witness ==
    /\ Len(trace) = MaxCalls
    /\ Range(Inputs(trace)) \cap {esc, ctrlZ, ctrlBackslash} = {}
    /\ {LBracket, ByteI} \subseteq Range(Inputs(trace))
    /\ Range(Inputs(trace)) \cap Ordinary # {}

\* ------------------------------------------------------------ claim C4

\* Calls i, i+1, i+2 are processByte(ESC), processByte('['), processByte(X)
\* on a classifier with nothing pending.
CsiAt(i) ==
    /\ i + 2 <= Len(trace)
    /\ trace[i].pre = <<>>
    /\ IsByte(i, esc)
    /\ IsByte(i + 1, LBracket)
    /\ trace[i + 2].kind = "byte"

CsiOut(i) == trace[i].out \o trace[i + 1].out \o trace[i + 2].out

\* C4 as stated: for X not in {'I', 'O', ESC}, ESC '[' X fed to a classifier
\* with nothing pending emits exactly one data event [ESC, '[', X] and
\* leaves nothing pending.
C4_Original ==
    \A i \in 1..Len(trace) :
        (CsiAt(i) /\ trace[i + 2].in \notin {ByteI, ByteO, esc}) =>
            /\ CsiOut(i) = <<DataEv(<<esc, LBracket, trace[i + 2].in>>)>>
            /\ trace[i + 2].post = <<>>

\* C4, amended: for X not in {'I', 'O', ESC, 0x1A, 0x1C}, ESC '[' X fed
\* consecutively to a classifier with nothing pending emits exactly one data
\* event [ESC, '[', X], sent by the third call, and leaves nothing pending.
C4_CsiPassedThrough ==
    \A i \in 1..Len(trace) :
        (CsiAt(i) /\ trace[i + 2].in \notin {ByteI, ByteO, esc, ctrlZ, ctrlBackslash}) =>
            /\ CsiOut(i) = <<DataEv(<<esc, LBracket, trace[i + 2].in>>)>>
            /\ trace[i + 2].out = CsiOut(i)
            /\ trace[i + 2].post = <<>>

\* ESC '[' '[' was fed right after a timeout had released an earlier lone
\* ESC.
C4_Witness ==
    \E i \in 2..Len(trace) :
        /\ CsiAt(i)
        /\ trace[i + 2].in = LBracket
        /\ trace[i - 1].kind = "timeout"

\* ------------------------------------------------------------ history helpers

\* The events a step has sent on inputCh.
NewEvents == SubSeq(emitted', Len(emitted) + 1, Len(emitted'))

IsCtl(ev) == ev.suspend \/ ev.quit

RECURSIVE NumCtl(_)
\* The number of suspend and quit events in a sequence of events.
NumCtl(evs) ==
    IF evs = <<>> THEN 0
    ELSE (IF IsCtl(Head(evs)) THEN 1 ELSE 0) + NumCtl(Tail(evs))

RECURSIVE BeforeCtl(_, _)
\* The events of evs that precede its n-th suspend or quit event.
BeforeCtl(evs, n) ==
    IF evs = <<>> THEN <<>>
    ELSE IF IsCtl(Head(evs))
         THEN (IF n = 1 THEN <<>> ELSE <<Head(evs)>> \o BeforeCtl(Tail(evs), n - 1))
         ELSE <<Head(evs)>> \o BeforeCtl(Tail(evs), n)

\* The suspend and quit events the control loop has received so far.
CtlServiced == NumCtl(emitted) - NumCtl(inputCh)

\* ------------------------------------------------------------ claim C3

C5_ControlByteFlushes ==
    /\ [][(ByteStep /\ Head(cur) \in {ctrlZ, ctrlBackslash}) =>
            LET due == Held(pending) \o
                        <<IF Head(cur) = ctrlZ THEN SuspendEv ELSE QuitEv>>
            IN  /\ Len(NewEvents) <= Len(due)
                /\ NewEvents = SubSeq(due, 1, Len(NewEvents))
                /\ timer' = "nil"
                /\ pc' # "blocked" => (NewEvents = due /\ pending' = <<>>)
                /\ pc' = "blocked" => Len(inputCh') = InputChCap]_vars
    /\ [](/\ \A k \in 1..Len(emitted) :
                Range(emitted[k].data) \cap {ctrlZ, ctrlBackslash} = {}
          /\ Range(written) \cap {ctrlZ, ctrlBackslash} = {})
    /\ [][(SelSuspend \/ SelQuit) =>
            written = Flatten(BeforeCtl(emitted, CtlServiced + 1))]_vars

\* Scenario 3: the suspend byte arrived while ESC '[' was pending; ESC '['
\* was written to the child and the wrapper then stopped.
C5_Witness ==
    /\ pc = "stopped"
    /\ emitted = <<DataEv(<<esc, LBracket>>), SuspendEv>>
    /\ written = <<esc, LBracket>>

\* ------------------------------------------------------------ claim C6

\* C6: the bytes written to the pty are always the bytes of a prefix of the
\* data events emitted by the classifier, in emission order.
C6_WrittenIsPrefix ==
    \E k \in 0..Len(emitted) : written = Flatten(SubSeq(emitted, 1, k))

\* Bytes have been written while a later data event, released by the timer
\* or by a second ESC, still waits in inputCh behind a control event.
C6_Witness ==
    /\ written # <<>>
    /\ Len(inputCh) >= 2
    /\ inputCh[1].suspend
    /\ inputCh[2].data # <<>>

\* ------------------------------------------------------------ claim C7

\* C7: once the child's exit has been notified on done, the control loop is
\* not stuck in a send on inputCh: it can still receive the notification and
\* return.
C7_ChildExitEndsSession ==
    doneCh # <<>> => pc # "blocked"

\* ------------------------------------------------------------ claim C8

\* C8: while the child runs and no quit was processed, when the control loop
\* has stopped for good (stuck in a send, or returned on end of input),
\* every byte read from stdin has been classified and every data event
\* emitted has been written to the child.
C8_NothingLost ==
    (child = "running" /\ (pc = "blocked" \/ (pc = "exited" /\ exitVia = "stdinErr"))) =>
        /\ stdinCh = <<>>
        /\ cur = <<>>
        /\ pending = <<>>
        /\ written = Flatten(emitted)

\* ------------------------------------------------------------ claim C9

\* C9: whenever main has returned (child exit, quit byte, stdin end or
\* error), the controlling terminal is in its original mode.
C9_RestoredOnExit ==
    pc = "exited" => termMode = "original"

\* main returned on end of input after a suspend/resume cycle.
C9_Witness ==
    /\ pc = "exited"
    /\ exitVia = "stdinErr"
    /\ CtlServiced > 0

\* ------------------------------------------------------------ claim C10

SuspendPcs == {"suspend_reset", "suspend_kill", "stopped", "resumed"}

\* C10: the suspend branch restores the terminal, then stops intercepting
\* SIGTSTP, then signals the process group, and re-enters raw mode after the
\* resume before the loop services anything: the terminal is in its original
\* mode from step (1) to step (4) and whenever the wrapper is stopped, with
\* SIGTSTP not intercepted when the signal is sent; it is raw whenever the
\* loop is servicing events; nothing is written to the child and no channel
\* is received from between steps (1) and (4).
C10_SuspendOrder ==
    /\ [](/\ pc \in SuspendPcs => termMode = "original"
          /\ pc \in {"stopped", "resumed"} => ~tstpNotify
          /\ pc \in {"select", "bytes", "blocked"} => termMode = "raw")
    /\ [][(pc \in SuspendPcs) =>
            /\ written' = written
            /\ emitted' = emitted
            /\ inputCh' = inputCh
            /\ Len(stdinCh') >= Len(stdinCh)
            /\ Len(doneCh') >= Len(doneCh)
            /\ Len(stdinErrCh') >= Len(stdinErrCh)
            /\ pc' \in SuspendPcs \cup {"select"}]_vars
    /\ [][/\ (pc' = "suspend_reset" /\ pc # pc') => (pc = "select" /\ termMode' = "original")
          /\ (pc' = "suspend_kill" /\ pc # pc') => pc = "suspend_reset"
          /\ (pc' = "stopped" /\ pc # pc') => pc = "suspend_kill"
          /\ (pc' = "resumed" /\ pc # pc') => pc = "stopped"
          /\ (pc = "resumed" /\ pc # pc') => (pc' = "select" /\ termMode' = "raw")]_vars

\* After a suspend/resume cycle the loop is servicing events again and has
\* written a byte that was typed behind the suspend byte.
C10_Witness ==
    /\ pc = "select"
    /\ termMode = "raw"
    /\ emitted = <<SuspendEv, DataEv(<<97>>)>>
    /\ written = <<97>>

\* ------------------------------------------------------------ claim C11

RECURSIVE BeforeQuit(_)
\* The events of evs that precede its first quit event.
BeforeQuit(evs) ==
    IF evs = <<>> \/ Head(evs).quit THEN <<>>
    ELSE <<Head(evs)>> \o BeforeQuit(Tail(evs))

\* C11: when the quit event has been serviced, main has returned, the
\* terminal is in its original mode, the child no longer runs, and exactly
\* the data events emitted before the quit event have been written; from
\* then on nothing is written, received or changed; the wrapper kills the
\* child only on a quit event, never on the child's own exit.
C11_QuitIsTerminal ==
    /\ [](exitVia = "quit" =>
            /\ pc = "exited"
            /\ termMode = "original"
            /\ child # "running"
            /\ written = Flatten(BeforeQuit(emitted)))
    /\ [](/\ child = "killed" => exitVia = "quit"
          /\ exitVia = "done" => child = "exited")
    /\ [][(pc = "exited") =>
            UNCHANGED <<pc, exitVia, written, emitted, inputCh, stdinCh, pending,
                        termMode, child>>]_vars

\* The quit event was serviced and the child killed while a byte typed
\* behind the quit byte waits, never to be written, in inputCh.
C11_Witness ==
    /\ exitVia = "quit"
    /\ child = "killed"
    /\ written # <<>>
    /\ inputCh # <<>>
    /\ inputCh[1].data # <<>>

\* ------------------------------------------------------------ claim C12

\* Call i is processByte(ESC) made while [ESC] was pending.
EscEscAt(i) == IsByte(i, esc) /\ trace[i].pre = <<esc>>

\* C12: when ESC arrives while [ESC] is pending, the call sends the first
\* ESC as a one-byte event, [ESC] is pending again and a new timer is armed
\* (also when the old one had expired); when the next call is the service
\* of that timer, it sends the second ESC as a one-byte event of its own.
C12_EscEscSeparate ==
    \A i \in 1..Len(trace) :
        EscEscAt(i) =>
            /\ trace[i].out = <<DataEv(<<esc>>)>>
            /\ trace[i].post = <<esc>>
            /\ trace[i].tpost = "armed"
            /\ (i < Len(trace) /\ trace[i + 1].kind = "timeout") =>
                    /\ trace[i + 1].out = <<DataEv(<<esc>>)>>
                    /\ trace[i + 1].post = <<>>

\* ESC arrived while [ESC] was pending and its timer had expired, and the
\* second ESC was then released by the timeout.
C12_Witness ==
    \E i \in 1..Len(trace) :
        /\ EscEscAt(i)
        /\ trace[i].tpre = "fired"
        /\ i < Len(trace)
        /\ trace[i + 1].kind = "timeout"

\* ------------------------------------------------------------ claim C13

RECURSIVE Replay(_, _, _)
\* Another run of a fresh classifier (pending p, timer t) over the calls of
\* sch, in which the timer expires only right before it is serviced: the
\* events it sends and what it holds at the end.
Replay(sch, p, t) ==
    IF sch = <<>> THEN [out |-> <<>>, pending |-> p]
    ELSE LET c == Head(sch)
             r == IF c.kind = "byte" THEN ProcessByte(p, t, c.in)
                  ELSE HandleTimeout(p, "fired")
             rest == Replay(Tail(sch), r.pending, r.timer)
         IN  [out |-> r.out \o rest.out, pending |-> rest.pending]

RECURSIVE BytesOnly(_)
\* The processByte calls of a trace, without its handleTimeout calls.
BytesOnly(tr) ==
    IF tr = <<>> THEN <<>>
    ELSE (IF Head(tr).kind = "byte" THEN <<Head(tr)>> ELSE <<>>) \o BytesOnly(Tail(tr))

\* C13 as stated: any two runs of a fresh classifier over the same byte
\* stream that end with nothing pending have sent the same events; here
\* the run of the trace and the run over its bytes in which no timeout is
\* serviced.
C13_Original ==
    LET other == Replay(BytesOnly(trace), <<>>, "nil") IN
    (pending = <<>> /\ other.pending = <<>>) => Emitted(trace) = other.out

\* C13, amended: replaying the same byte stream with the timeouts serviced
\* at the same places through a fresh classifier yields the same events
\* (same grouping, same order) and the same pending sequence, whenever the
\* timer expired in either run.
C13_Deterministic ==
    LET other == Replay(trace, <<>>, "nil") IN
    /\ Emitted(trace) = other.out
    /\ pending = other.pending

\* A run in which a timeout was serviced and, elsewhere, a byte was
\* processed after the timer had expired unserviced.
C13_Witness ==
    \E i, j \in 1..Len(trace) :
        /\ trace[i].kind = "timeout"
        /\ trace[j].kind = "byte"
        /\ trace[j].tpre = "fired"
        /\ trace[j].out # <<>>

\* ------------------------------------------------------------ claim C14

PendingShapes == {<<>>, <<esc>>, <<esc, LBracket>>}

\* C14: pending/timer invariant. After every processByte and handleTimeout
\* call the pending sequence is [], [ESC] or [ESC,'['] and timerChan is
\* non-nil exactly when the pending sequence is non-empty; the one timer
\* field never holds a timer while another is started (a call that starts
\* a timer found none or stopped it first, having bytes pending).
C14_PendingTimer ==
    /\ pending \in PendingShapes
    /\ (timer # "nil") <=> (pending # <<>>)
    /\ \A i \in 1..Len(trace) :
        /\ trace[i].post \in PendingShapes
        /\ (trace[i].tpost # "nil") <=> (trace[i].post # <<>>)
        /\ (trace[i].tpost = "armed") =>
                (trace[i].tpre = "nil" \/ trace[i].pre # <<>>)

\* ESC '[' is held with its timer expired, after a control byte had flushed
\* an earlier held ESC.
C14_Witness ==
    /\ pending = <<esc, LBracket>>
    /\ timer = "fired"
    /\ \E i \in 1..Len(trace) :
        /\ trace[i].kind = "byte"
        /\ trace[i].in \in {ctrlZ, ctrlBackslash}
        /\ trace[i].pre = <<esc>>

\* ------------------------------------------------------------ claim C15

\* C15: no double flush. A byte serviced after the timer expired discards
\* that expiry (the timer it leaves is nil or newly armed); a timeout is
\* serviced only for the timer armed by the call just before it, for the
\* sequence that call left pending, and sends exactly that sequence; so no
\* held byte is sent twice: the bytes sent and the bytes held never
\* outnumber the bytes consumed.
C15_NoDoubleFlush ==
    /\ \A i \in 1..Len(trace) :
        /\ (trace[i].kind = "byte" /\ trace[i].tpre = "fired") =>
                /\ trace[i].tpost # "fired"
                /\ trace[i].out \in {<<>>, <<DataEv(Append(trace[i].pre, trace[i].in))>>}
                      \cup {Held(trace[i].pre) \o e : e \in {<<>>, <<SuspendEv>>, <<QuitEv>>}}
        /\ (trace[i].kind = "timeout") =>
                /\ i > 1
                /\ trace[i - 1].kind = "byte"
                /\ trace[i - 1].tpost = "armed"
                /\ trace[i - 1].post # <<>>
                /\ trace[i].out = <<DataEv(trace[i - 1].post)>>
                /\ trace[i].tpost = "nil"
    /\ Len(Flatten(Emitted(trace))) + Len(pending) <= Len(Inputs(trace))

\* A byte was serviced after the timer had expired and left a new pending
\* sequence, whose own timer then expired and was serviced.
C15_Witness ==
    \E i, j \in 1..Len(trace) :
        /\ i < j
        /\ trace[i].kind = "byte"
        /\ trace[i].tpre = "fired"
        /\ trace[i].post # <<>>
        /\ trace[j].kind = "timeout"

\* ------------------------------------------------------------ claim C16

RECURSIVE Strip(_)
\* The bytes consumed by the calls of a trace with the control bytes and
\* the swallowed focus triples (ESC '[' 'I'/'O' in consecutive calls)
\* removed.
Strip(tr) ==
    IF tr = <<>> THEN <<>>
    ELSE IF Head(tr).kind = "timeout" THEN Strip(Tail(tr))
    ELSE IF Head(tr).in \in {ctrlZ, ctrlBackslash} THEN Strip(Tail(tr))
    ELSE IF /\ Len(tr) >= 3
            /\ Head(tr).in = esc
            /\ tr[2].kind = "byte" /\ tr[2].in = LBracket
            /\ tr[3].kind = "byte" /\ tr[3].in \in {ByteI, ByteO}
         THEN Strip(SubSeq(tr, 4, Len(tr)))
    ELSE <<Head(tr).in>> \o Strip(Tail(tr))

\* C16: byte conservation. The bytes of all data events sent so far,
\* followed by the pending sequence, are the input consumed so far without
\* its control bytes and its swallowed focus triples; every data event
\* carries 1 to 3 bytes.
C16_BytesConserved ==
    /\ Flatten(Emitted(trace)) \o pending = Strip(trace)
    /\ \A ev \in Range(Emitted(trace)) :
            IF IsCtl(ev) THEN ev.data = <<>> ELSE Len(ev.data) \in 1..3

\* A control byte flushed a held ESC and a focus triple was swallowed.
C16_Witness ==
    /\ \E i \in 1..Len(trace) : FocusAt(i)
    /\ \E i \in 1..Len(trace) :
        /\ trace[i].kind = "byte"
        /\ trace[i].in \in {ctrlZ, ctrlBackslash}
        /\ trace[i].pre # <<>>

\* ------------------------------------------------------------ claim C17

\* Calls i..j consume exactly ESC, '[' and 'I' or 'O', starting with nothing
\* pending, with at least one serviced timeout between them.
SplitFocus(i, j) ==
    /\ i < j
    /\ j - i > 2
    /\ trace[i].kind = "byte"
    /\ trace[i].pre = <<>>
    /\ trace[j].kind = "byte"
    /\ Inputs(SubSeq(trace, i, j)) \in {<<esc, LBracket, ByteI>>, <<esc, LBracket, ByteO>>}

\* C17: a serviced timeout sends the held [ESC] or [ESC,'['] as one data
\* event and leaves nothing pending, so an 'I' or 'O' right after it is
\* sent as a one-byte event; a focus triple split by a serviced timeout is
\* sent in full; handleTimeout with nothing pending sends nothing.
C17_TimeoutReleases ==
    /\ \A i \in 1..Len(trace) :
        (trace[i].kind = "timeout" /\ trace[i].pre \in {<<esc>>, <<esc, LBracket>>}) =>
            /\ trace[i].out = <<DataEv(trace[i].pre)>>
            /\ trace[i].post = <<>>
            /\ (i < Len(trace) /\ (IsByte(i + 1, ByteI) \/ IsByte(i + 1, ByteO))) =>
                    /\ trace[i + 1].out = <<DataEv(<<trace[i + 1].in>>)>>
                    /\ trace[i + 1].post = <<>>
    /\ \A i, j \in 1..Len(trace) :
        SplitFocus(i, j) =>
            Flatten(Emitted(SubSeq(trace, i, j))) = Inputs(SubSeq(trace, i, j))
    /\ \A t \in {"nil", "armed", "fired"} :
        /\ HandleTimeout(<<>>, t).out = <<>>
        /\ HandleTimeout(<<>>, t).pending = <<>>

\* ESC '[' was released by a serviced timeout and the next byte was 'I' or
\* 'O'.
C17_Witness ==
    \E i \in 1..Len(trace) :
        /\ i < Len(trace)
        /\ trace[i].kind = "timeout"
        /\ trace[i].pre = <<esc, LBracket>>
        /\ (IsByte(i + 1, ByteI) \/ IsByte(i + 1, ByteO))

\* ------------------------------------------------------------ claim C18

\* No resize is on its way: no SIGWINCH is pending, resizeCh is empty and
\* the resize goroutine waits.
ResizeQuiet == ~winchPending /\ resizeCh = <<>> /\ rsz = "idle"

\* C18: resize propagation converges. While the session runs, once every
\* change of the terminal's dimensions made since the child was started
\* has been handled (nothing is pending, queued or in progress), the pty
\* has the terminal's current dimensions.
C18_ResizeConverges ==
    (start = "loop" /\ Alive /\ ResizeQuiet) => ptySize = ttySize

\* ------------------------------------------------------------ claim C19

\* C19: every SIGINT, SIGTERM or SIGQUIT delivered to the wrapper while the
\* session runs is forwarded to the child as the same signal, in order
\* (it was passed to cmd.Process.Signal or waits in sigCh), also after a
\* suspend and resume; the delivery changes neither the terminal mode nor
\* the classifier and does not end the wrapper.
C19_SignalsForwarded ==
    /\ [](delivered = forwarded \o sigCh)
    /\ [][(delivered' # delivered) =>
            UNCHANGED <<termMode, pending, timer, pc, exitVia>>]_vars

====
